---- MODULE Spec2Model ----
(***************************************************************************)
(* A model of src/AstarSearching/search.py: the generic graph search loop  *)
(* (generic_search), the Arc record, the ExplicitGraph reference graph,    *)
(* the abstract Frontier and the print_actions formatter.                  *)
(*                                                                         *)
(* One run of the model is: ExplicitGraph(...) is constructed from some    *)
(* arguments, generic_search(graph, frontier) is run on it with an empty   *)
(* frontier, and print_actions is applied to what the search returned.     *)
(***************************************************************************)
EXTENDS Integers, Sequences, FiniteSets

VARIABLES
    args,        \* the arguments handed to ExplicitGraph.__init__
    graph,       \* the ExplicitGraph object (its fields), or NoGraph
    strategy,    \* which concrete Frontier subclass the caller passed
    frontier,    \* the paths resident in the frontier, in insertion order
    pc,          \* position of the program
    i,           \* position of the starting_nodes() generator
    path,        \* generic_search's local `path` (the produced path)
    k,           \* position of the outgoing_arcs() generator in edge_list
    solution,    \* generic_search's local `solution` / its return value
    added,       \* history: every path passed to frontier.add, in order
    produced,    \* history: every path the frontier produced, in order
    goalCalls,   \* history: every node passed to graph.is_goal, in order
    arcCalls,    \* history: every node passed to graph.outgoing_arcs
    output       \* what print_actions printed

vars == <<args, graph, strategy, frontier, pc, i, path, k, solution,
          added, produced, goalCalls, arcCalls, output>>

(***************************************************************************)
(* Bounds of the model.                                                    *)
(***************************************************************************)
\* longest path (number of arcs, seed included) the model lets the search add
MaxPathLen == 4
\* longest edge list handed to the constructor
MaxEdges == 3

(***************************************************************************)
(* Values.                                                                 *)
(***************************************************************************)
\* Python's None, as the tail of a seed arc
None == "None"

\* Arc(tail, head, label, cost): a namedtuple, immutable
Arc(tail, head, label, cost) ==
    [tail |-> tail, head |-> head, label |-> label, cost |-> cost]

\* the value None as the result of generic_search, and a path as its result
NoSolution == [isNone |-> TRUE, arcs |-> <<>>]
Found(p) == [isNone |-> FALSE, arcs |-> p]

\* "no ExplicitGraph object exists"
NoGraph == [built |-> FALSE, nodes |-> {}, edge_list |-> <<>>,
            starting_list |-> <<>>, goal_nodes |-> {}]

\* nothing printed yet
NoOutput == <<>>

(***************************************************************************)
(* ExplicitGraph.                                                          *)
(***************************************************************************)
\* the three assertions of ExplicitGraph.__init__
EdgesLinkNodes(a) ==
    \A n \in 1..Len(a.edge_list) :
        a.edge_list[n][1] \in a.nodes /\ a.edge_list[n][2] \in a.nodes

StartsInNodes(a) ==
    \A n \in 1..Len(a.starting_list) : a.starting_list[n] \in a.nodes

\* a slip: the third assertion left out
GoalsInNodes_unchecked(a) == TRUE

GoalsInNodes(a) == \A g \in a.goal_nodes : g \in a.nodes

AssertionsHold(a) == EdgesLinkNodes(a) /\ StartsInNodes(a) /\ GoalsInNodes(a)

\* the object __init__ leaves behind when no assertion fails
NewGraph(a) ==
    [built |-> TRUE, nodes |-> a.nodes, edge_list |-> a.edge_list,
     starting_list |-> a.starting_list, goal_nodes |-> a.goal_nodes]

\* a slip: membership tested in the node set instead of the goal set
is_goal_in_nodes(g, node) == node \in g.nodes

\* ExplicitGraph.is_goal
is_goal(g, node) == node \in g.goal_nodes

\* a slip: the edge's own cost ignored
EdgeCost_always_default(edge) == 1

\* the cost outgoing_arcs gives an edge: its third component, or 1
EdgeCost(edge) == IF Len(edge) > 2 THEN edge[3] ELSE 1

\* a slip: the label built as head->tail
EdgeArc_label_reversed(edge) ==
    Arc(edge[1], edge[2], edge[2] \o "->" \o edge[1], EdgeCost(edge))

\* the Arc outgoing_arcs yields for an edge
EdgeArc(edge) ==
    Arc(edge[1], edge[2], edge[1] \o "->" \o edge[2], EdgeCost(edge))

\* a slip: the test `tail == node` left out, every edge yields an arc
EdgeLeaves_always(edge, node) == TRUE

\* a slip: edges entering the node selected instead of edges leaving it
EdgeLeaves_by_head(edge, node) == edge[2] = node

\* does outgoing_arcs(node) yield an arc for this edge
EdgeLeaves(edge, node) == edge[1] = node

\* a slip: `return` where `yield` was meant, the generator yields nothing
NextEdge_yields_nothing(g, node, n) == Len(g.edge_list) + 1

\* position of the first edge at or after position n that outgoing_arcs(node)
\* yields an arc for; Len(edge_list) + 1 when the generator is exhausted
RECURSIVE NextEdge(_, _, _)
NextEdge(g, node, n) ==
    IF n > Len(g.edge_list) THEN n
    ELSE IF EdgeLeaves(g.edge_list[n], node) THEN n
    ELSE NextEdge(g, node, n + 1)

\* ExplicitGraph.outgoing_arcs as the whole sequence it yields
RECURSIVE outgoing_arcs_from(_, _, _)
outgoing_arcs_from(g, node, n) ==
    LET m == NextEdge(g, node, n)
    IN  IF m > Len(g.edge_list) THEN <<>>
        ELSE <<EdgeArc(g.edge_list[m])>> \o outgoing_arcs_from(g, node, m + 1)

outgoing_arcs(g, node) == outgoing_arcs_from(g, node, 1)

(***************************************************************************)
(* Paths.                                                                  *)
(***************************************************************************)
\* a slip: the seed arc given the default cost of an edge
SeedPath_cost_one(node) == <<Arc(None, node, "no action", 1)>>

\* the seed path generic_search builds for a starting node
SeedPath(node) == <<Arc(None, node, "no action", 0)>>

\* a slip: path[:-1] + (arc,), the new arc put in place of the last one
Extend_replaces_last(p, arc) == SubSeq(p, 1, Len(p) - 1) \o <<arc>>

\* path + (arc,): a new tuple
Extend(p, arc) == p \o <<arc>>

\* path[-1].head
Terminal(p) == p[Len(p)].head

RECURSIVE SumCost(_)
SumCost(p) == IF p = <<>> THEN 0 ELSE p[1].cost + SumCost(Tail(p))

(***************************************************************************)
(* Frontier.                                                               *)
(***************************************************************************)
\* Frontier.add: the path becomes resident; the others stay as they are
FrontierAdd(f, p) == Append(f, p)

\* first in, first out: the oldest resident path
Fifo(f) == {n \in 1..Len(f) : n = 1}

\* last in, first out: the newest resident path
Lifo(f) == {n \in 1..Len(f) : n = Len(f)}

\* lowest cost first: a resident path of least total cost
LowestCostFirst(f) ==
    {n \in 1..Len(f) : \A m \in 1..Len(f) : SumCost(f[n]) <= SumCost(f[m])}

\* Frontier.__iter__ selects a resident path: which one is the subclass's
\* choice; with no strategy fixed, any resident path may be selected
Selectable(f, s) ==
    CASE s = "fifo" -> Fifo(f)
      [] s = "lifo" -> Lifo(f)
      [] s = "lcfs" -> LowestCostFirst(f)
      [] OTHER      -> 1..Len(f)

\* a slip: the produced path is read but left in the container
FrontierRemove_keeps(f, n) == f

\* Frontier.__iter__: the produced path is removed from the frontier
FrontierRemove(f, n) == SubSeq(f, 1, n - 1) \o SubSeq(f, n + 1, Len(f))

(***************************************************************************)
(* print_actions.                                                          *)
(***************************************************************************)
RECURSIVE MiddleLines(_, _)
MiddleLines(p, n) ==
    IF n >= Len(p) THEN <<>>
    ELSE <<"  " \o p[n].label \o ",">> \o MiddleLines(p, n + 1)

\* a slip: the loop runs over path[:-1], so the seed arc is printed too
print_actions_from_seed(r) ==
    IF ~r.isNone /\ r.arcs # <<>>
    THEN [lines |-> <<"Actions:">> \o MiddleLines(r.arcs, 1)
                    \o <<"  " \o r.arcs[Len(r.arcs)].label \o ".">>,
          hasTotal |-> TRUE, total |-> SumCost(r.arcs)]
    ELSE [lines |-> <<"There is no solution!">>, hasTotal |-> FALSE, total |-> 0]

\* what print_actions prints: the lines of text, and the number printed
\* after "Total Cost:"
print_actions(r) ==
    IF ~r.isNone /\ r.arcs # <<>>
    THEN [lines |-> <<"Actions:">> \o MiddleLines(r.arcs, 2)
                    \o <<"  " \o r.arcs[Len(r.arcs)].label \o ".">>,
          hasTotal |-> TRUE, total |-> SumCost(r.arcs)]
    ELSE [lines |-> <<"There is no solution!">>, hasTotal |-> FALSE, total |-> 0]

(***************************************************************************)
(* The inputs the model draws the constructor's arguments from.            *)
(***************************************************************************)
NodeSets == {{"A", "B", "C"}, {"A", "B"}, {"A"}}

EdgeChoices ==
    {<<"A", "B", 1>>, <<"B", "C", 1>>, <<"A", "C", 5>>, <<"B", "A">>,
     <<"C", "Z">>}

RECURSIVE SeqsUpTo(_, _)
SeqsUpTo(S, n) ==
    IF n = 0 THEN {<<>>}
    ELSE LET shorter == SeqsUpTo(S, n - 1)
         IN  shorter \cup {Append(s, x) : s \in shorter, x \in S}

\* the one edge choice that closes a cycle (A->B->A)
BackEdges == {<<"B", "A">>}

Repeats(s) == \E a, b \in 1..Len(s) : a # b /\ s[a] = s[b]

\* every edge list of at most MaxEdges choices; the lists that repeat an edge
\* are drawn among those without a cycle
EdgeLists ==
    {s \in SeqsUpTo(EdgeChoices, MaxEdges) :
        Repeats(s) => \A n \in 1..Len(s) : s[n] \notin BackEdges}

StartingLists == {<<>>, <<"A">>, <<"C", "A">>, <<"B">>, <<"Z">>}

GoalSets == {{}, {"C"}, {"A"}, {"Z"}}

Strategies == {"any", "fifo", "lifo", "lcfs"}

(***************************************************************************)
(* The program.                                                            *)
(***************************************************************************)
Init ==
    /\ args \in [nodes : NodeSets, edge_list : EdgeLists,
                 starting_list : StartingLists, goal_nodes : GoalSets]
    /\ strategy \in Strategies
    /\ graph = NoGraph
    /\ frontier = <<>>
    /\ pc = "construct"
    /\ i = 1
    /\ path = <<>>
    /\ k = 1
    /\ solution = NoSolution
    /\ added = <<>>
    /\ produced = <<>>
    /\ goalCalls = <<>>
    /\ arcCalls = <<>>
    /\ output = NoOutput

\* ExplicitGraph.__init__ returns an object
Construct ==
    /\ pc = "construct"
    /\ AssertionsHold(args)
    /\ graph' = NewGraph(args)
    /\ pc' = "seed"
    /\ UNCHANGED <<args, strategy, frontier, i, path, k, solution, added,
                   produced, goalCalls, arcCalls, output>>

\* ExplicitGraph.__init__ raises AssertionError
ConstructFails ==
    /\ pc = "construct"
    /\ ~AssertionsHold(args)
    /\ pc' = "error"
    /\ UNCHANGED <<args, graph, strategy, frontier, i, path, k, solution,
                   added, produced, goalCalls, arcCalls, output>>

\* one iteration of `for node in graph.starting_nodes()`
Seed ==
    /\ pc = "seed"
    /\ i <= Len(graph.starting_list)
    /\ frontier' = FrontierAdd(frontier, SeedPath(graph.starting_list[i]))
    /\ added' = Append(added, SeedPath(graph.starting_list[i]))
    /\ i' = i + 1
    /\ UNCHANGED <<args, graph, strategy, pc, path, k, solution, produced,
                   goalCalls, arcCalls, output>>

\* a slip: the seeding loop left after its first iteration
SeedDone_after_first ==
    /\ pc = "seed"
    /\ (i > 1 \/ i > Len(graph.starting_list))
    /\ solution' = NoSolution
    /\ pc' = "loop"
    /\ UNCHANGED <<args, graph, strategy, frontier, i, path, k, added,
                   produced, goalCalls, arcCalls, output>>

\* starting_nodes() is exhausted; solution = None
SeedDone ==
    /\ pc = "seed"
    /\ i > Len(graph.starting_list)
    /\ solution' = NoSolution
    /\ pc' = "loop"
    /\ UNCHANGED <<args, graph, strategy, frontier, i, path, k, added,
                   produced, goalCalls, arcCalls, output>>

\* a slip: no `break` after `solution = path`, the goal path is expanded too
ProduceGoal_no_break ==
    /\ pc = "loop"
    /\ \E n \in Selectable(frontier, strategy) :
        /\ is_goal(graph, Terminal(frontier[n]))
        /\ path' = frontier[n]
        /\ frontier' = FrontierRemove(frontier, n)
        /\ produced' = Append(produced, frontier[n])
        /\ goalCalls' = Append(goalCalls, Terminal(frontier[n]))
        /\ arcCalls' = Append(arcCalls, Terminal(frontier[n]))
        /\ solution' = Found(frontier[n])
    /\ k' = 1
    /\ pc' = "expand"
    /\ UNCHANGED <<args, graph, strategy, i, added, output>>

\* `for path in frontier` obtains a path that ends at a goal: break, return
ProduceGoal ==
    /\ pc = "loop"
    /\ \E n \in Selectable(frontier, strategy) :
        /\ is_goal(graph, Terminal(frontier[n]))
        /\ path' = frontier[n]
        /\ frontier' = FrontierRemove(frontier, n)
        /\ produced' = Append(produced, frontier[n])
        /\ goalCalls' = Append(goalCalls, Terminal(frontier[n]))
        /\ solution' = Found(frontier[n])
    /\ pc' = "done"
    /\ UNCHANGED <<args, graph, strategy, i, k, added, arcCalls, output>>

\* `for path in frontier` obtains a path that does not end at a goal:
\* outgoing_arcs(node_to_expand) is called
ProduceExpand ==
    /\ pc = "loop"
    /\ \E n \in Selectable(frontier, strategy) :
        /\ ~is_goal(graph, Terminal(frontier[n]))
        /\ path' = frontier[n]
        /\ frontier' = FrontierRemove(frontier, n)
        /\ produced' = Append(produced, frontier[n])
        /\ goalCalls' = Append(goalCalls, Terminal(frontier[n]))
        /\ arcCalls' = Append(arcCalls, Terminal(frontier[n]))
    /\ k' = 1
    /\ pc' = "expand"
    /\ UNCHANGED <<args, graph, strategy, i, solution, added, output>>

\* a slip: the loop looks at the arc's cost and leaves out the dear arcs
AddExtension_cheap_only ==
    /\ pc = "expand"
    /\ LET m == NextEdge(graph, Terminal(path), k)
       IN  /\ m <= Len(graph.edge_list)
           /\ Len(path) < MaxPathLen
           /\ IF EdgeArc(graph.edge_list[m]).cost > 1
                 THEN frontier' = frontier /\ added' = added
                 ELSE /\ frontier' = FrontierAdd(frontier,
                                         Extend(path, EdgeArc(graph.edge_list[m])))
                      /\ added' = Append(added,
                                         Extend(path, EdgeArc(graph.edge_list[m])))
           /\ k' = m + 1
    /\ UNCHANGED <<args, graph, strategy, pc, i, path, solution, produced,
                   goalCalls, arcCalls, output>>

\* a slip: a `break` at the end of the inner loop body, only the first arc
\* is added
AddExtension_first_only ==
    /\ pc = "expand"
    /\ LET m == NextEdge(graph, Terminal(path), k)
       IN  /\ m <= Len(graph.edge_list)
           /\ Len(path) < MaxPathLen
           /\ frontier' = FrontierAdd(frontier, Extend(path, EdgeArc(graph.edge_list[m])))
           /\ added' = Append(added, Extend(path, EdgeArc(graph.edge_list[m])))
           /\ k' = Len(graph.edge_list) + 1
    /\ UNCHANGED <<args, graph, strategy, pc, i, path, solution, produced,
                   goalCalls, arcCalls, output>>

\* a slip: the goal test made when a path is built, not when it is produced
AddExtension_tests_goal ==
    /\ pc = "expand"
    /\ LET m == NextEdge(graph, Terminal(path), k)
           new == Extend(path, EdgeArc(graph.edge_list[m]))
       IN  /\ m <= Len(graph.edge_list)
           /\ Len(path) < MaxPathLen
           /\ frontier' = FrontierAdd(frontier, new)
           /\ added' = Append(added, new)
           /\ k' = m + 1
           /\ IF is_goal(graph, Terminal(new))
                 THEN solution' = Found(new) /\ pc' = "done"
                 ELSE solution' = solution /\ pc' = pc
    /\ UNCHANGED <<args, graph, strategy, i, path, produced,
                   goalCalls, arcCalls, output>>

\* a slip: the arc after each yielded arc is skipped
AddExtension_skips_next ==
    /\ pc = "expand"
    /\ LET m == NextEdge(graph, Terminal(path), k)
       IN  /\ m <= Len(graph.edge_list)
           /\ Len(path) < MaxPathLen
           /\ frontier' = FrontierAdd(frontier, Extend(path, EdgeArc(graph.edge_list[m])))
           /\ added' = Append(added, Extend(path, EdgeArc(graph.edge_list[m])))
           /\ k' = NextEdge(graph, Terminal(path), m + 1) + 1
    /\ UNCHANGED <<args, graph, strategy, pc, i, path, solution, produced,
                   goalCalls, arcCalls, output>>

\* a slip: the path extended in place (path += (arc,)) before it is added
AddExtension_in_place ==
    /\ pc = "expand"
    /\ LET m == NextEdge(graph, Terminal(path), k)
       IN  /\ m <= Len(graph.edge_list)
           /\ Len(path) < MaxPathLen
           /\ path' = Extend(path, EdgeArc(graph.edge_list[m]))
           /\ frontier' = FrontierAdd(frontier, path')
           /\ added' = Append(added, path')
           /\ k' = m + 1
    /\ UNCHANGED <<args, graph, strategy, pc, i, solution, produced,
                   goalCalls, arcCalls, output>>

\* one iteration of `for arc in graph.outgoing_arcs(node_to_expand)`
AddExtension ==
    /\ pc = "expand"
    /\ LET m == NextEdge(graph, Terminal(path), k)
       IN  /\ m <= Len(graph.edge_list)
           /\ Len(path) < MaxPathLen
           /\ frontier' = FrontierAdd(frontier, Extend(path, EdgeArc(graph.edge_list[m])))
           /\ added' = Append(added, Extend(path, EdgeArc(graph.edge_list[m])))
           /\ k' = m + 1
    /\ UNCHANGED <<args, graph, strategy, pc, i, path, solution, produced,
                   goalCalls, arcCalls, output>>

\* a slip: `return solution` indented into the loop body
ExpandDone_returns ==
    /\ pc = "expand"
    /\ NextEdge(graph, Terminal(path), k) > Len(graph.edge_list)
    /\ pc' = "done"
    /\ UNCHANGED <<args, graph, strategy, frontier, i, path, k, solution,
                   added, produced, goalCalls, arcCalls, output>>

\* outgoing_arcs(node_to_expand) is exhausted: back to `for path in frontier`
ExpandDone ==
    /\ pc = "expand"
    /\ NextEdge(graph, Terminal(path), k) > Len(graph.edge_list)
    /\ pc' = "loop"
    /\ UNCHANGED <<args, graph, strategy, frontier, i, path, k, solution,
                   added, produced, goalCalls, arcCalls, output>>

\* a slip: `return path` instead of `return solution`; `path` is unbound
\* (an UnboundLocalError) when the loop body never ran
Exhausted_returns_path ==
    /\ pc = "loop"
    /\ frontier = <<>>
    /\ IF produced = <<>>
          THEN pc' = "error" /\ solution' = solution
          ELSE pc' = "done" /\ solution' = Found(path)
    /\ UNCHANGED <<args, graph, strategy, frontier, i, path, k,
                   added, produced, goalCalls, arcCalls, output>>

\* the frontier's generator is exhausted: return solution, still None
Exhausted ==
    /\ pc = "loop"
    /\ frontier = <<>>
    /\ pc' = "done"
    /\ UNCHANGED <<args, graph, strategy, frontier, i, path, k, solution,
                   added, produced, goalCalls, arcCalls, output>>

\* the caller passes the result to print_actions
PrintActions ==
    /\ pc = "done"
    /\ output' = print_actions(solution)
    /\ pc' = "printed"
    /\ UNCHANGED <<args, graph, strategy, frontier, i, path, k, solution,
                   added, produced, goalCalls, arcCalls>>

Next ==
    \/ Construct
    \/ ConstructFails
    \/ Seed
    \/ SeedDone
    \/ ProduceGoal
    \/ ProduceExpand
    \/ AddExtension
    \/ ExpandDone
    \/ Exhausted
    \/ PrintActions

Spec == Init /\ [][Next]_vars

\* the interpreter keeps running the program: a step that can be taken is taken
FairSpec == Spec /\ WF_vars(Next)

(***************************************************************************)
(* Properties.                                                             *)
(***************************************************************************)
\* generic_search has returned
Returned == pc \in {"done", "printed"}

\* generic_search is running or has returned
Searching == pc \in {"seed", "loop", "expand", "done", "printed"}

\* the nodes the starting list holds
StartingNodes(g) == {g.starting_list[n] : n \in 1..Len(g.starting_list)}

\* C1: whenever generic_search has halted, its result is None or a path whose
\* first arc is the seed arc of a starting node and whose last arc's head is
\* a goal node; it never returns a path ending at a non-goal node.
C1_ResultIsNoneOrGoalPath ==
    (Returned /\ ~solution.isNone) =>
        /\ Len(solution.arcs) >= 1
        /\ \E s \in StartingNodes(graph) :
              solution.arcs[1] =
                  [tail |-> None, head |-> s, label |-> "no action", cost |-> 0]
        /\ solution.arcs[Len(solution.arcs)].head \in graph.goal_nodes

C1_Witness ==
    /\ Returned
    /\ ~solution.isNone
    /\ Len(solution.arcs) >= 3
    /\ strategy = "any"

\* C4: with no starting node the search returns None at once: no error, no
\* path added to the frontier, no path produced, is_goal and outgoing_arcs
\* never called, and the only step the loop can take is to return.
C4_NoStartingNodes ==
    (graph.built /\ graph.starting_list = <<>>) =>
        /\ pc \in {"seed", "loop", "done", "printed"}
        /\ frontier = <<>> /\ added = <<>> /\ produced = <<>>
        /\ goalCalls = <<>> /\ arcCalls = <<>>
        /\ solution.isNone
        /\ (pc = "loop" => ENABLED Exhausted /\ ~ENABLED ProduceExpand
                                             /\ ~ENABLED ProduceGoal)

C4_Witness ==
    /\ graph.built /\ graph.starting_list = <<>>
    /\ graph.edge_list # <<>> /\ graph.goal_nodes # {}
    /\ Returned /\ solution.isNone

\* what the constructor's contract calls a malformed graph
Malformed(a) ==
    \/ \E n \in 1..Len(a.edge_list) :
          a.edge_list[n][1] \notin a.nodes \/ a.edge_list[n][2] \notin a.nodes
    \/ \E n \in 1..Len(a.starting_list) : a.starting_list[n] \notin a.nodes
    \/ \E g \in a.goal_nodes : g \notin a.nodes

\* C5: constructing an ExplicitGraph from malformed arguments fails with an
\* error and yields no graph object; from well-formed arguments it yields the
\* object; so no search ever runs on a malformed graph.
C5_ConstructionValidates ==
    /\ (pc = "construct" => ~graph.built)
    /\ (pc # "construct" /\ Malformed(args)) =>
           (pc = "error" /\ ~graph.built /\ added = <<>> /\ produced = <<>>)
    /\ (pc # "construct" /\ ~Malformed(args)) =>
           /\ Searching
           /\ graph = [built |-> TRUE, nodes |-> args.nodes,
                       edge_list |-> args.edge_list,
                       starting_list |-> args.starting_list,
                       goal_nodes |-> args.goal_nodes]
    /\ (Searching => graph.built /\ ~Malformed(graph))

\* the spec's scenario: nodes {A,B,C} with goal {Z}
C5_Witness ==
    /\ pc = "error"
    /\ args.nodes = {"A", "B", "C"}
    /\ args.edge_list = <<<<"A", "B", 1>>, <<"B", "C", 1>>, <<"A", "C", 5>>>>
    /\ args.starting_list = <<"A">>
    /\ args.goal_nodes = {"Z"}

\* the spec's scenario: A->B (1), B->C (1), A->C (5), start A, goal C
ScenarioArgs ==
    [nodes |-> {"A", "B", "C"},
     edge_list |-> <<<<"A", "B", 1>>, <<"B", "C", 1>>, <<"A", "C", 5>>>>,
     starting_list |-> <<"A">>,
     goal_nodes |-> {"C"}]

ScenarioCheapPath ==
    << [tail |-> None, head |-> "A", label |-> "no action", cost |-> 0],
       [tail |-> "A", head |-> "B", label |-> "A->B", cost |-> 1],
       [tail |-> "B", head |-> "C", label |-> "B->C", cost |-> 1] >>

\* C6: on the scenario graph a cheapest-first frontier makes generic_search
\* return seed(A), A->B, B->C, of total cost 2, and not seed(A), A->C.
C6_ScenarioCheapestFirst ==
    (args = ScenarioArgs /\ strategy = "lcfs" /\ Returned) =>
        /\ ~solution.isNone
        /\ solution.arcs = ScenarioCheapPath
        /\ solution.arcs[1].cost + solution.arcs[2].cost + solution.arcs[3].cost = 2

C6_Witness ==
    /\ args = ScenarioArgs /\ strategy = "lcfs" /\ Returned
    /\ Len(produced) = 3

\* C7: when the first path the frontier produces is the seed path of a goal
\* node, generic_search returns exactly that one-arc path, of total cost 0,
\* without calling outgoing_arcs and without adding any extension.
C7_StartIsGoal ==
    (produced # <<>> /\ produced[1][Len(produced[1])].head \in graph.goal_nodes) =>
        /\ Returned
        /\ ~solution.isNone
        /\ \E s \in StartingNodes(graph) :
              solution.arcs =
                  <<[tail |-> None, head |-> s, label |-> "no action", cost |-> 0]>>
        /\ solution.arcs = produced[1]
        /\ solution.arcs[1].cost = 0
        /\ Len(produced) = 1
        /\ arcCalls = <<>>
        /\ \A n \in 1..Len(added) : Len(added[n]) = 1
        /\ Len(added) = Len(graph.starting_list)

\* the spec's scenario: nodes {A}, no edges, start [A], goal {A}
C7_Witness ==
    /\ args = [nodes |-> {"A"}, edge_list |-> <<>>,
               starting_list |-> <<"A">>, goal_nodes |-> {"A"}]
    /\ Returned
    /\ produced # <<>>

\* the path invariant of the data model
WellFormed(p) ==
    /\ Len(p) >= 1
    /\ p[1].tail = None /\ p[1].label = "no action" /\ p[1].cost = 0
    /\ \A n \in 2..Len(p) :
          /\ ~(p[n].tail = None /\ p[n].label = "no action")
          /\ p[n - 1].head = p[n].tail

\* C9: every path generic_search adds to the frontier, and so every path
\* resident in it, produced by it or returned, is well-formed.
C9_PathsWellFormed ==
    /\ \A n \in 1..Len(added) : WellFormed(added[n])
    /\ \A n \in 1..Len(frontier) : WellFormed(frontier[n])
    /\ \A n \in 1..Len(produced) : WellFormed(produced[n])
    /\ (pc = "expand" => WellFormed(path))
    /\ (~solution.isNone => WellFormed(solution.arcs))

C9_Witness ==
    /\ \E n \in 1..Len(added) : Len(added[n]) = MaxPathLen
    /\ \E n \in 1..Len(frontier) : Len(frontier[n]) >= 3
    /\ ~solution.isNone

(***************************************************************************)
(* Reachability in the graph, for the properties about termination.        *)
(***************************************************************************)
\* the heads of the edges leaving a node
Successors(g, n) ==
    {g.edge_list[e][2] : e \in {e \in 1..Len(g.edge_list) : g.edge_list[e][1] = n}}

\* the nodes reachable from a set of nodes by zero or more edges
RECURSIVE Closure(_, _)
Closure(g, S) ==
    LET T == S \cup UNION {Successors(g, n) : n \in S}
    IN  IF T = S THEN S ELSE Closure(g, T)

GoalReachable(g) == Closure(g, StartingNodes(g)) \cap g.goal_nodes # {}

\* no node is reachable from itself by one or more edges
Acyclic(g) == \A n \in g.nodes : n \notin Closure(g, Successors(g, n))

\* the search has returned a path from a seed arc to a goal node
ReturnedGoalPath ==
    /\ Returned
    /\ ~solution.isNone
    /\ Len(solution.arcs) >= 1
    /\ solution.arcs[1].tail = None
    /\ solution.arcs[1].label = "no action"
    /\ solution.arcs[1].cost = 0
    /\ solution.arcs[Len(solution.arcs)].head \in graph.goal_nodes

FifoFindsReachableGoal ==
    (graph.built /\ strategy = "fifo" /\ graph.starting_list # <<>>
        /\ GoalReachable(graph))
        ~> ReturnedGoalPath

C3_UnreachableGoalReturnsNone ==
    /\ (graph.built /\ Acyclic(graph) /\ ~GoalReachable(graph))
          ~> (Returned /\ solution.isNone /\ frontier = <<>>)
    /\ []((graph.built /\ Acyclic(graph) /\ ~GoalReachable(graph) /\ Returned)
             => (solution.isNone /\ frontier = <<>>
                 /\ Len(produced) = Len(added)))

C3_Witness ==
    /\ graph.built /\ Acyclic(graph) /\ ~GoalReachable(graph)
    /\ graph.goal_nodes # {}
    /\ Returned /\ solution.isNone
    /\ Len(produced) >= 4

\* the action list and the output the formatter's contract describes for a
\* path: the labels of the arcs after the first, in order, each on a line,
\* and the sum of the costs of all arcs
ActionLabels(p) == [n \in 1..(Len(p) - 1) |-> p[n + 1].label]

Rendered(labels) ==
    <<"Actions:">> \o
    [n \in 1..Len(labels) |->
        "  " \o labels[n] \o (IF n = Len(labels) THEN "." ELSE ",")]

RECURSIVE TotalOf(_, _)
TotalOf(p, n) == IF n = 0 THEN 0 ELSE TotalOf(p, n - 1) + p[n].cost

NoSolutionOutput ==
    [lines |-> <<"There is no solution!">>, hasTotal |-> FALSE, total |-> 0]

\* C8 as stated: for every solution path, the trivial one included, the
\* action list printed is the labels of all arcs except the seed arc and the
\* total is the sum of all costs; for None only the fixed message.
C8_PrintsActionsExceptSeed ==
    pc = "printed" =>
        IF solution.isNone THEN output = NoSolutionOutput
        ELSE /\ output.lines = Rendered(ActionLabels(solution.arcs))
             /\ output.hasTotal
             /\ output.total = TotalOf(solution.arcs, Len(solution.arcs))

\* C8 amended: as stated for paths of two arcs or more; for the one-arc path
\* the single action printed is the seed arc's own label, "no action".
C8_PrintsActions ==
    pc = "printed" =>
        IF solution.isNone THEN output = NoSolutionOutput
        ELSE /\ Len(solution.arcs) >= 2 =>
                    output.lines = Rendered(ActionLabels(solution.arcs))
             /\ Len(solution.arcs) = 1 =>
                    output.lines = <<"Actions:", "  no action.">>
             /\ output.hasTotal
             /\ output.total = TotalOf(solution.arcs, Len(solution.arcs))

C8_Witness ==
    /\ pc = "printed"
    /\ ~solution.isNone
    /\ Len(solution.arcs) = 3
    /\ output.total = 2

\* p occurs in the sequence of paths s
Holds(s, p) == \E n \in 1..Len(s) : s[n] = p

\* C10: extending a path never mutates it.  On every add the paths resident
\* in the frontier stay as they are; on the add of an extension the produced
\* path stays as it is and the path added is that path followed by one arc;
\* and every resident path is, arc for arc, a path that was added.
C10_ExtensionKeepsPaths ==
    /\ [](\A n \in 1..Len(frontier) : Holds(added, frontier[n]))
    /\ [](pc = "expand" => path = produced[Len(produced)])
    /\ [][(added' # added) =>
            /\ Len(frontier') = Len(frontier) + 1
            /\ \A n \in 1..Len(frontier) : frontier'[n] = frontier[n]
            /\ produced' = produced
            /\ (pc = "expand" =>
                  /\ path' = path
                  /\ Len(frontier'[Len(frontier')]) = Len(path) + 1
                  /\ \A n \in 1..Len(path) :
                        frontier'[Len(frontier')][n] = path[n]
                  /\ frontier'[Len(frontier')][Len(path) + 1].tail
                        = path[Len(path)].head)
          ]_vars

C10_Witness ==
    /\ pc = "expand"
    /\ k > 1
    /\ Len(path) >= 2
    /\ Len(frontier) >= 2
    /\ frontier[Len(frontier)] = added[Len(added)]

\* how many times p occurs in the sequence of paths s
Count(s, p) == Cardinality({n \in 1..Len(s) : s[n] = p})

\* the paths that occur in s
PathsOf(s) == {s[n] : n \in 1..Len(s)}

\* C11: a frontier hands out each admitted path at most once and removes it
\* on production: the resident paths are the added ones minus the produced
\* ones, as multisets; every produced path was added before; and production
\* is exhausted exactly when no path is resident.
C11_ExactlyOnceConsumption ==
    /\ \A p \in PathsOf(added) \cup PathsOf(produced) \cup PathsOf(frontier) :
          /\ Count(frontier, p) + Count(produced, p) = Count(added, p)
          /\ Count(produced, p) <= Count(added, p)
    /\ (pc = "loop" =>
          /\ (ENABLED Exhausted <=> frontier = <<>>)
          /\ ((ENABLED ProduceGoal \/ ENABLED ProduceExpand) <=> frontier # <<>>))

C11_Witness ==
    /\ pc = "loop"
    /\ Len(produced) >= 2
    /\ Len(frontier) >= 2
    /\ \E p \in PathsOf(added) : Count(added, p) = 2 /\ Count(produced, p) = 1

\* C12: the path returned is the first produced path that ends at a goal; it
\* is the last path produced and is not expanded; once it is produced the
\* search has returned, and nothing is added or produced after that, even
\* with paths still resident.
C12_FirstGoalPathWins ==
    /\ []((\E n \in 1..Len(produced) :
              produced[n][Len(produced[n])].head \in graph.goal_nodes)
            => (/\ Returned
                /\ ~solution.isNone
                /\ solution.arcs = produced[Len(produced)]
                /\ \A n \in 1..(Len(produced) - 1) :
                      produced[n][Len(produced[n])].head \notin graph.goal_nodes
                /\ Len(arcCalls) = Len(produced) - 1
                /\ Len(goalCalls) = Len(produced)))
    /\ [][Returned =>
            /\ added' = added /\ produced' = produced /\ frontier' = frontier
            /\ goalCalls' = goalCalls /\ arcCalls' = arcCalls
            /\ solution' = solution /\ Returned'
         ]_vars

C12_Witness ==
    /\ pc = "printed"
    /\ ~solution.isNone
    /\ Len(frontier) >= 2
    /\ Len(produced) >= 3

\* the arcs the claim expects for node n: one per edge with tail n, in
\* edge-list order, labelled tail->head, with the edge's cost or 1
LeavingEdges(g, n) ==
    {e \in 1..Len(g.edge_list) : g.edge_list[e][1] = n}

ExpectedArc(edge) ==
    [tail |-> edge[1], head |-> edge[2],
     label |-> edge[1] \o "->" \o edge[2],
     cost |-> IF Len(edge) = 3 THEN edge[3] ELSE 1]

\* the r-th smallest element of a set of positions
RECURSIVE Nth(_, _)
Nth(S, r) ==
    LET least == CHOOSE x \in S : \A y \in S : x <= y
    IN  IF r = 1 THEN least ELSE Nth(S \ {least}, r - 1)

ExpectedArcs(g, n) ==
    [r \in 1..Cardinality(LeavingEdges(g, n)) |->
        ExpectedArc(g.edge_list[Nth(LeavingEdges(g, n), r)])]

\* the extensions the claim expects for a produced path
ExpectedExtensions(g, p) ==
    IF p[Len(p)].head \in g.goal_nodes THEN <<>>
    ELSE [r \in 1..Len(ExpectedArcs(g, p[Len(p)].head)) |->
             p \o <<ExpectedArcs(g, p[Len(p)].head)[r]>>]

\* the extensions expected for the first n paths of a sequence, in order
RECURSIVE ExpectedAdds(_, _, _)
ExpectedAdds(g, s, n) ==
    IF n = 0 THEN <<>>
    ELSE ExpectedAdds(g, s, n - 1) \o ExpectedExtensions(g, s[n])

IsPrefix(s, t) == Len(s) <= Len(t) /\ \A n \in 1..Len(s) : s[n] = t[n]

\* the paths added after the seeds
AfterSeeds == SubSeq(added, Len(graph.starting_list) + 1, Len(added))

\* C13: for every produced path p that does not end at a goal the search
\* adds exactly p + (a,) for each arc a leaving p's last node, in the order
\* yielded and before the next path is produced; for a dead end it adds
\* nothing.
C13_ExpansionAddsEachArcOnce ==
    (pc \in {"loop", "expand", "done", "printed"}) =>
        /\ (pc # "expand" =>
              AfterSeeds = ExpectedAdds(graph, produced, Len(produced)))
        /\ (pc = "expand" =>
              /\ IsPrefix(ExpectedAdds(graph, produced, Len(produced) - 1),
                          AfterSeeds)
              /\ IsPrefix(AfterSeeds,
                          ExpectedAdds(graph, produced, Len(produced)))
              /\ Len(AfterSeeds)
                   - Len(ExpectedAdds(graph, produced, Len(produced) - 1))
                 = Cardinality({e \in LeavingEdges(graph, path[Len(path)].head) :
                                    e < k}))

\* a node with two leaving edges and a dead end have both been expanded
C13_Witness ==
    /\ pc = "loop"
    /\ \E n \in 1..Len(produced) :
          Len(ExpectedExtensions(graph, produced[n])) = 2
    /\ \E n \in 1..Len(produced) :
          /\ produced[n][Len(produced[n])].head \notin graph.goal_nodes
          /\ ExpectedExtensions(graph, produced[n]) = <<>>
    /\ Len(added) >= 4

\* C14: seeding happens entirely before consumption: one one-arc seed path
\* per element of the starting list, in its order, all added before the
\* first path is produced and before is_goal is first called; no seed path
\* is added later.
C14_SeedingBeforeConsumption ==
    /\ (pc = "seed" =>
          /\ produced = <<>> /\ goalCalls = <<>> /\ arcCalls = <<>>
          /\ Len(added) = i - 1)
    /\ (pc \in {"loop", "expand", "done", "printed"} =>
          Len(added) >= Len(graph.starting_list))
    /\ \A n \in 1..Len(added) :
          IF n <= Len(graph.starting_list)
          THEN added[n] = <<[tail |-> None, head |-> graph.starting_list[n],
                             label |-> "no action", cost |-> 0]>>
          ELSE Len(added[n]) >= 2 /\ produced # <<>>

C14_Witness ==
    /\ Len(graph.starting_list) = 2
    /\ Len(added) >= 4
    /\ Len(produced) >= 2

\* a cycle can be reached from a starting node
CycleReachable(g) ==
    \E n \in Closure(g, StartingNodes(g)) : n \in Closure(g, Successors(g, n))

\* C15: with a frontier that detects no revisit and a graph in which a cycle
\* can be reached from a starting node and no goal can, the search never
\* returns, and the frontier holds a path at every production step.
C15_CycleWithoutGoalNeverReturns ==
    (graph.built /\ CycleReachable(graph) /\ ~GoalReachable(graph)) =>
        /\ ~Returned
        /\ solution.isNone
        /\ (pc = "loop" => frontier # <<>> /\ ~ENABLED Exhausted)

C15_Witness ==
    /\ graph.built /\ CycleReachable(graph) /\ ~GoalReachable(graph)
    /\ strategy = "lifo"
    /\ pc = "loop"
    /\ Len(produced) >= 3

\* C17: for every node n, outgoing_arcs(n) yields exactly one Arc per edge of
\* the edge list whose tail is n, repeated edges kept, in edge-list order,
\* and none for other edges; each has tail n, the edge's head, the label
\* tail->head, and the edge's third component as cost, or 1 without one.
C17_OutgoingArcs ==
    graph.built =>
        \A n \in graph.nodes \cup {"Z"} :
            /\ outgoing_arcs(graph, n) = ExpectedArcs(graph, n)
            /\ Len(outgoing_arcs(graph, n)) =
                   Cardinality(LeavingEdges(graph, n))
            /\ \A r \in 1..Len(outgoing_arcs(graph, n)) :
                   outgoing_arcs(graph, n)[r].tail = n

\* a repeated edge and an edge of another node, and the search has used the
\* arcs
C17_Witness ==
    /\ graph.built
    /\ Repeats(graph.edge_list)
    /\ Len(outgoing_arcs(graph, "A")) = 2
    /\ Len(outgoing_arcs(graph, "B")) = 1
    /\ pc = "expand" /\ k > 1

\* arc is the arc of some edge of the edge list
ArcOfSomeEdge(g, arc) ==
    \E e \in 1..Len(g.edge_list) :
        /\ g.edge_list[e][1] = arc.tail
        /\ g.edge_list[e][2] = arc.head
        /\ arc.cost = (IF Len(g.edge_list[e]) = 3 THEN g.edge_list[e][3] ELSE 1)
        /\ arc.label = g.edge_list[e][1] \o "->" \o g.edge_list[e][2]

\* C18: every path returned is a walk of the graph: its seed arc's head is
\* in the starting list and each later arc is an edge of the edge list
\* leaving the head of the arc before it.
C18_ReturnedPathIsWalk ==
    (Returned /\ ~solution.isNone) =>
        LET p == solution.arcs
        IN  /\ Len(p) >= 1
            /\ p[1].tail = None
            /\ p[1].head \in StartingNodes(graph)
            /\ \A n \in 2..Len(p) :
                  /\ p[n].tail = p[n - 1].head
                  /\ ArcOfSomeEdge(graph, p[n])
            /\ p[Len(p)].head \in Closure(graph, StartingNodes(graph))
            /\ p[Len(p)].head \in graph.goal_nodes

C18_Witness ==
    /\ Returned /\ ~solution.isNone
    /\ Len(solution.arcs) = 3
    /\ solution.arcs[3].cost = 1
    /\ strategy = "lifo"

\* C19: generic_search returns None only when the search was complete: the
\* frontier is empty, every path added has been produced and tested, none of
\* them ended at a goal, and so no goal can be reached from a starting node.
C19_NoneOnlyWhenComplete ==
    (Returned /\ solution.isNone) =>
        /\ frontier = <<>>
        /\ Len(produced) = Len(added)
        /\ \A p \in PathsOf(added) : Count(produced, p) = Count(added, p)
        /\ Len(goalCalls) = Len(produced)
        /\ \A n \in 1..Len(produced) :
              /\ goalCalls[n] = produced[n][Len(produced[n])].head
              /\ goalCalls[n] \notin graph.goal_nodes
        /\ ~GoalReachable(graph)

C19_Witness ==
    /\ Returned /\ solution.isNone
    /\ graph.goal_nodes # {}
    /\ graph.edge_list # <<>>
    /\ Len(produced) >= 3

\* the costs of the walks of at most d edges from node n to a goal node
RECURSIVE WalkCosts(_, _, _)
WalkCosts(g, n, d) ==
    (IF n \in g.goal_nodes THEN {0} ELSE {})
    \cup
    (IF d = 0 THEN {}
     ELSE UNION {
            {(IF Len(g.edge_list[e]) = 3 THEN g.edge_list[e][3] ELSE 1) + c :
                c \in WalkCosts(g, g.edge_list[e][2], d - 1)} :
            e \in LeavingEdges(g, n)})

\* the costs of the walks from a starting node to a goal node
SolutionCosts(g) ==
    UNION {WalkCosts(g, s, MaxPathLen) : s \in StartingNodes(g)}

AllCostsPositive(g) ==
    \A e \in 1..Len(g.edge_list) :
        (IF Len(g.edge_list[e]) = 3 THEN g.edge_list[e][3] ELSE 1) > 0

\* C20: with strictly positive arc costs and a frontier that produces a
\* resident path of least total cost, the path returned costs no more than
\* any walk from a starting node to a goal node.
C20_CheapestFirstIsOptimal ==
    (strategy = "lcfs" /\ Returned /\ ~solution.isNone
        /\ AllCostsPositive(graph)) =>
        /\ TotalOf(solution.arcs, Len(solution.arcs)) \in SolutionCosts(graph)
        /\ \A c \in SolutionCosts(graph) :
              TotalOf(solution.arcs, Len(solution.arcs)) <= c

\* a cheaper and a dearer solution exist, and the cheaper one has more arcs
C20_Witness ==
    /\ strategy = "lcfs" /\ Returned /\ ~solution.isNone
    /\ Cardinality(SolutionCosts(graph)) >= 2
    /\ Len(solution.arcs) = 3

\* what is left of a graph when arc costs and labels are taken away: the
\* starting list, the goal set and the (tail, head) pairs of the edge list
Shape(g) ==
    [starts |-> g.starting_list,
     goals |-> g.goal_nodes,
     pairs |-> [e \in 1..Len(g.edge_list) |->
                    <<g.edge_list[e][1], g.edge_list[e][2]>>]]

\* the heads of the pairs with tail n, in order
HeadsFrom(sh, n) ==
    LET S == {e \in 1..Len(sh.pairs) : sh.pairs[e][1] = n}
    IN  [r \in 1..Cardinality(S) |-> sh.pairs[Nth(S, r)][2]]

\* the first-in-first-out search told on node sequences alone: the nodes
\* expanded, in order, the node sequence of the result (empty for None), and
\* whether the search ends within MaxPathLen
RECURSIVE NodeSearch(_, _, _)
NodeSearch(sh, queue, expanded) ==
    IF queue = <<>>
    THEN [expanded |-> expanded, result |-> <<>>, ends |-> TRUE]
    ELSE LET p == Head(queue)
             n == p[Len(p)]
             heads == HeadsFrom(sh, n)
         IN  IF n \in sh.goals
             THEN [expanded |-> expanded, result |-> p, ends |-> TRUE]
             ELSE IF heads # <<>> /\ Len(p) >= MaxPathLen
             THEN [expanded |-> Append(expanded, n), result |-> <<>>,
                   ends |-> FALSE]
             ELSE NodeSearch(sh,
                             Tail(queue) \o
                                 [r \in 1..Len(heads) |-> Append(p, heads[r])],
                             Append(expanded, n))

NodeRun(sh) ==
    NodeSearch(sh, [n \in 1..Len(sh.starts) |-> <<sh.starts[n]>>], <<>>)

\* the nodes a path visits
NodesOf(p) == [n \in 1..Len(p) |-> p[n].head]

\* C16: arc costs and labels never influence generic_search's control flow.
\* Under a first-in-first-out frontier the sequence of expanded nodes and
\* the node sequence of the result are those of the search told on the
\* graph's shape alone, so two graphs that differ only in costs and labels
\* give the same expanded nodes and the same result nodes (or both None).
C16_CostsDoNotSteerTheLoop ==
    (strategy = "fifo" /\ graph.built) =>
        /\ IsPrefix(arcCalls, NodeRun(Shape(graph)).expanded)
        /\ (Returned =>
              /\ NodeRun(Shape(graph)).ends
              /\ arcCalls = NodeRun(Shape(graph)).expanded
              /\ NodesOf(solution.arcs) = NodeRun(Shape(graph)).result
              /\ solution.isNone <=> (NodeRun(Shape(graph)).result = <<>>))

\* the scenario graph, whose dear arc A->C is added and never produced
C16_Witness ==
    /\ strategy = "fifo"
    /\ args = ScenarioArgs
    /\ Returned
    /\ Len(arcCalls) >= 1

====
